---------------------------- MODULE Spec2Model ----------------------------
(***************************************************************************)
(* go-watcher: a routing-table dump is split into records ("chunks") keyed *)
(* by destination and hashed (DataTable), and a debounced file watcher     *)
(* (FileWatcher) triggers a reload-and-diff cycle (DetectChanges) when the *)
(* file is written.                                                        *)
(*                                                                         *)
(* Text is modelled as sequences of symbols.  A symbol is a string; the    *)
(* literal "Destination:" is one symbol (Marker), so strings.HasPrefix is  *)
(* a test of the first symbol, " " is the only whitespace symbol, and a    *)
(* line is a sequence of symbols without the newline symbol.               *)
(***************************************************************************)
EXTENDS Integers, Sequences, FiniteSets, TLC

VARIABLES
    \* ---- the watched file and the record store (DataTable rt of main) ----
    file,       \* current content of the watched file: a sequence of lines
    Chunks,     \* rt.Chunks: destination -> Chunk
    mu,         \* rt.mu: [writer: it is write-locked, readers: the holders of a read lock]
    mainPc,     \* position of main: "new", "loading", "watching", "exited"
    loadErr,    \* error returned by main's LoadDataTable
    dc,         \* per onChange invocation: the locals of DetectChanges
    owed,       \* history: the file was rewritten or a reload failed, and no
                \* reload cycle has begun since
    \* ---- the debounced notifier (FileWatcher) ----
    now,        \* the clock, in ticks
    events,     \* fw.watcher.Events: raw signals not yet received
    errors,     \* fw.watcher.Errors: errors not yet received
    watchPc,    \* position of the watch goroutine
    timers,     \* every timer time.AfterFunc created: [at, state]
    timer,      \* fw.timer: 0 (nil) or the index in timers of the timer held
    closed,     \* fw.watcher is closed
    closePc,    \* position of Close
    cbWaiting,  \* timer functions that fired and have not yet run onChange
    cbRunning,  \* onChange invocations in flight
    lastEvent,  \* fw.lastEvent
    cbTimes,    \* history: the times at which onChange was invoked
    ignoredWhileArmed,  \* history: the watch loop has received and ignored a
                        \* raw signal while a timer was armed
    errorBeforeSignal   \* history: the watch loop has received an error
                        \* before the first timer was set

storeVars == <<file, Chunks, mu, mainPc, loadErr, dc, owed>>
histVars == <<ignoredWhileArmed, errorBeforeSignal>>
watchVars == <<now, events, errors, watchPc, timers, timer, closed, closePc,
               cbWaiting, cbRunning, lastEvent, cbTimes, ignoredWhileArmed,
               errorBeforeSignal>>
vars == <<file, Chunks, mu, mainPc, loadErr, dc, owed, now, events, errors, watchPc,
          timers, timer, closed, closePc, cbWaiting, cbRunning, lastEvent,
          cbTimes, ignoredWhileArmed, errorBeforeSignal>>

---------------------------------------------------------------------------
(* Text                                                                    *)

Marker == "Destination:"
SP == " "
NL == "\n"

\* a variant that finds the marker anywhere in the line (strings.Contains)
ContainsMarker(line) == \E i \in 1..Len(line) : line[i] = Marker

\* strings.HasPrefix(line, "Destination:")
HasPrefix(line) == Len(line) >= 1 /\ line[1] = Marker

\* strings.Fields(line): the maximal runs of non-space symbols, in order.
RECURSIVE FieldsFrom(_, _, _, _)
FieldsFrom(line, i, cur, acc) ==
    IF i > Len(line)
    THEN IF cur = <<>> THEN acc ELSE Append(acc, cur)
    ELSE IF line[i] = SP
         THEN FieldsFrom(line, i + 1, <<>>,
                         IF cur = <<>> THEN acc ELSE Append(acc, cur))
         ELSE FieldsFrom(line, i + 1, Append(cur, line[i]), acc)

Fields(line) == FieldsFrom(line, 1, <<>>, <<>>)

\* a variant of strings.Join that separates the lines by a space
RECURSIVE JoinBySpace(_)
JoinBySpace(lines) ==
    IF lines = <<>> THEN <<>>
    ELSE IF Len(lines) = 1 THEN lines[1]
    ELSE lines[1] \o <<SP>> \o JoinBySpace(Tail(lines))

\* strings.Join(lines, "\n")
RECURSIVE Join(_)
Join(lines) ==
    IF lines = <<>> THEN <<>>
    ELSE IF Len(lines) = 1 THEN lines[1]
    ELSE lines[1] \o <<NL>> \o Join(Tail(lines))

\* bufio.Scanner with the default split function (bufio.ScanLines): the
\* text is cut at every newline, one trailing carriage return is dropped
\* from a line, a last line without a newline is returned when it is not
\* empty, and nothing is returned for the end of the text after a newline.
CR == "\r"
DropCR(line) ==
    IF line # <<>> /\ line[Len(line)] = CR
    THEN SubSeq(line, 1, Len(line) - 1)
    ELSE line

RECURSIVE ScanLinesFrom(_, _, _, _)
ScanLinesFrom(text, i, cur, acc) ==
    IF i > Len(text)
    THEN IF cur = <<>> THEN acc ELSE Append(acc, DropCR(cur))
    ELSE IF text[i] = NL
         THEN ScanLinesFrom(text, i + 1, <<>>, Append(acc, DropCR(cur)))
         ELSE ScanLinesFrom(text, i + 1, Append(cur, text[i]), acc)

ScanLines(text) == ScanLinesFrom(text, 1, <<>>, <<>>)

\* %d of fmt.Sprintf: the decimal digits of n >= 0
Digits == <<"0", "1", "2", "3", "4", "5", "6", "7", "8", "9">>

RECURSIVE FormatInt(_)
FormatInt(n) ==
    IF n < 10 THEN <<Digits[n + 1]>>
    ELSE FormatInt(n \div 10) \o <<Digits[(n % 10) + 1]>>

\* fmt.Sprintf("unknown_%d", lineNum)
SyntheticKey(lineNum) == <<"unknown_">> \o FormatInt(lineNum)

\* hashChunk: SHA-256 as a collision-free symbolic digest of the data
hashChunk(data) == <<"sha256">> \o data

---------------------------------------------------------------------------
(* DataTable                                                               *)

\* a variant of the map assignment that keeps the value a key already has
PutIfAbsent(m, k, v) ==
    [x \in (DOMAIN m) \cup {k} |-> IF x \in DOMAIN m THEN m[x] ELSE v]

\* map assignment m[k] = v
Put(m, k, v) == [x \in (DOMAIN m) \cup {k} |-> IF x = k THEN v ELSE m[x]]

\* NewDataTable: the Chunks of a fresh table
NewDataTable == <<>>

\* the destination of a marker line read as line number lineNum
DestinationOf(line, lineNum) ==
    LET parts == Fields(line)
    IN  IF Len(parts) >= 2 THEN parts[2] ELSE SyntheticKey(lineNum)

\* closing a chunk: Data, Hash and EndLine are set, and it is stored
SaveChunk(chunks, cur, chunkLines, endLine) ==
    IF cur # <<>> /\ Len(chunkLines) > 0
    THEN LET chunkData == Join(chunkLines)
             c == [cur[1] EXCEPT !.Data = chunkData,
                                 !.Hash = hashChunk(chunkData),
                                 !.EndLine = endLine]
         IN  Put(chunks, c.Destination, c)
    ELSE chunks

\* one iteration of the scanner loop
ScanLine(st, line) ==
    LET lineNum == st.lineNum + 1
    IN  IF HasPrefix(line)
        THEN [Chunks |-> SaveChunk(st.Chunks, st.cur, st.chunkLines, lineNum - 1),
              cur |-> <<[StartLine |-> lineNum, EndLine |-> 0, Hash |-> <<>>,
                         Data |-> <<>>,
                         Destination |-> DestinationOf(line, lineNum)]>>,
              chunkLines |-> <<line>>,
              lineNum |-> lineNum]
        ELSE IF st.cur # <<>>
        THEN [st EXCEPT !.chunkLines = Append(@, line), !.lineNum = lineNum]
        ELSE [st EXCEPT !.lineNum = lineNum]

RECURSIVE ScanLoop(_, _, _, _)
ScanLoop(st, lines, i, n) ==
    IF i > n THEN st ELSE ScanLoop(ScanLine(st, lines[i]), lines, i + 1, n)

\* What the file system does to one LoadDataTable call: the open fails, the
\* scanner reads every line, or the scanner stops with an error after
\* `after` lines (bufio.Scanner: a read error, or a line that is too long).
IoOk == [kind |-> "ok", after |-> 0]
IoOutcomes(lines) ==
    {IoOk, [kind |-> "open_error", after |-> 0]}
      \cup {[kind |-> "read_error", after |-> k] : k \in 0..Len(lines)}

\* LoadDataTable on a table whose Chunks are `chunks`: the Chunks it leaves
\* and the error it returns
LoadDataTable(chunks, lines, io) ==
    IF io.kind = "open_error"
    THEN [Chunks |-> chunks, err |-> "open_error"]
    ELSE LET n == IF io.kind = "ok" THEN Len(lines) ELSE io.after
             st == ScanLoop([Chunks |-> chunks, cur |-> <<>>,
                             chunkLines |-> <<>>, lineNum |-> 0], lines, 1, n)
         IN  [Chunks |-> SaveChunk(st.Chunks, st.cur, st.chunkLines, st.lineNum),
              err |-> IF io.kind = "ok" THEN "nil" ELSE "read_error"]


\* the orders in which a range over a Go map may visit its keys
Orders(S) ==
    {o \in [1..Cardinality(S) -> S] : \A i, j \in DOMAIN o : i # j => o[i] # o[j]}

\* a variant whose second loop does not test whether the destination is new
CompareNoExistsTest(oldChunks, newChunks, ordOld, ordNew) ==
    SelectSeq(ordOld, LAMBDA dest :
                 IF dest \notin DOMAIN newChunks THEN TRUE
                 ELSE newChunks[dest].Hash # oldChunks[dest].Hash)
      \o ordNew

\* DetectChanges, the comparison: the destinations of oldChunks that are gone
\* or whose Hash differs, then the destinations that are new
Compare(oldChunks, newChunks, ordOld, ordNew) ==
    SelectSeq(ordOld, LAMBDA dest :
                 IF dest \notin DOMAIN newChunks THEN TRUE
                 ELSE newChunks[dest].Hash # oldChunks[dest].Hash)
      \o SelectSeq(ordNew, LAMBDA dest : dest \notin DOMAIN oldChunks)

\* a variant that parses the reload into the live table's own map
TempTableAliased == Chunks

\* DetectChanges: tempRT := NewDataTable(rt.FilePath), the table the reload
\* is parsed into
TempTable == NewDataTable

\* a variant that updates the live map in place, entry by entry
PublishInPlace(live, fresh) ==
    [k \in (DOMAIN live) \cup (DOMAIN fresh) |->
       IF k \in DOMAIN fresh THEN fresh[k] ELSE live[k]]

\* DetectChanges, the update: rt.Chunks = tempRT.Chunks
Publish(live, fresh) == fresh

\* sync.RWMutex
CanRLock(m) == ~m.writer
CanLock(m) == ~m.writer /\ m.readers = {}

---------------------------------------------------------------------------
(* Inputs                                                                  *)

LnA == <<Marker, SP, "a">>
LnB == <<Marker, SP, "b">>
LnC == <<Marker, SP, "c">>
LnBare == <<Marker>>
LnUnknown2 == <<Marker, SP, "unknown_", "2">>
LnGlued == <<Marker, "a", SP, "b", SP>>
LnIndented == <<SP, Marker, SP, "a">>
LnBody == <<SP, "x">>
LnBlank == <<>>

\* the contents the watched file takes while reload cycles overlap: two
\* records; a removed and c added; a leading line added (the same records,
\* one line further down)
StoreFiles == {<<LnA, LnB>>, <<LnC, LnB>>, <<LnBody, LnA, LnB>>}

\* the contents the watched file takes when one reload cycle runs at a time
MaxDiffLines == 2
DiffPool == {LnA, LnB, LnC, LnBody}
DiffFiles == UNION {[1..k -> DiffPool] : k \in 0..MaxDiffLines}

\* the lines and the contents the chunker is run on
MaxLines == 3
LinePool == {LnA, LnB, LnBare, LnUnknown2, LnGlued, LnIndented, LnBody, LnBlank}
ChunkerFiles == UNION {[1..k -> LinePool] : k \in 0..MaxLines}

\* the number of onChange invocations that may be in flight at once
MaxCallbacks == 2
Procs == 1..MaxCallbacks

---------------------------------------------------------------------------
(* The record store: main's initial load and the reload cycles             *)

IdleDC == [pc |-> "idle", oldChunks |-> <<>>, src |-> <<>>, temp |-> <<>>,
           changed |-> <<>>, err |-> "nil", quiet |-> TRUE]

InitStore(F) ==
    /\ file \in F
    /\ Chunks = NewDataTable
    /\ mu = [writer |-> FALSE, readers |-> {}]
    /\ mainPc = "new"
    /\ loadErr = "nil"
    /\ dc = [p \in Procs |-> IdleDC]
    /\ owed = FALSE

\* main: rt := NewDataTable(filePath); rt.LoadDataTable() takes rt.mu
MainLoadBegin ==
    /\ UNCHANGED watchVars
    /\ mainPc = "new"
    /\ CanLock(mu)
    /\ mu' = [mu EXCEPT !.writer = TRUE]
    /\ mainPc' = "loading"
    /\ UNCHANGED <<file, Chunks, loadErr, dc, owed>>

\* main: LoadDataTable opens, scans and returns (rt.mu is released); main
\* exits on an error and goes on to start the watcher otherwise
MainLoadEnd ==
    /\ UNCHANGED watchVars
    /\ mainPc = "loading"
    /\ \E io \in IoOutcomes(file) :
         LET r == LoadDataTable(Chunks, file, io)
         IN  /\ Chunks' = r.Chunks
             /\ loadErr' = r.err
             /\ mainPc' = IF r.err = "nil" THEN "watching" ELSE "exited"
    /\ mu' = [mu EXCEPT !.writer = FALSE]
    /\ UNCHANGED <<file, dc, owed>>

\* the environment rewrites the watched file
Rewrite(F) ==
    /\ UNCHANGED watchVars
    /\ mainPc = "watching"
    /\ \E f \in F \ {file} : file' = f
    /\ owed' = TRUE
    /\ UNCHANGED <<Chunks, mu, mainPc, loadErr, dc>>

\* onChange -> DetectChanges: rt.mu.RLock()
DcRLock(p) ==
    /\ UNCHANGED watchVars
    /\ mainPc = "watching"
    /\ dc[p].pc = "idle"
    /\ CanRLock(mu)
    /\ mu' = [mu EXCEPT !.readers = @ \cup {p}]
    /\ dc' = [dc EXCEPT ![p].pc = "rlocked"]
    /\ owed' = FALSE
    /\ UNCHANGED <<file, Chunks, mainPc, loadErr>>

\* DetectChanges: oldChunks is copied, rt.mu.RUnlock()
DcCopy(p) ==
    /\ UNCHANGED watchVars
    /\ dc[p].pc = "rlocked"
    /\ dc' = [dc EXCEPT ![p].pc = "load", ![p].oldChunks = Chunks]
    /\ mu' = [mu EXCEPT !.readers = @ \ {p}]
    /\ UNCHANGED <<file, Chunks, mainPc, loadErr, owed>>

\* a variant that updates rt.Chunks before it looks at the error
DcLoadFailPublishing(p) ==
    /\ UNCHANGED watchVars
    /\ dc[p].pc = "load"
    /\ \E io \in IoOutcomes(file) \ {IoOk} :
         LET r == LoadDataTable(TempTable, file, io)
         IN  /\ dc' = [dc EXCEPT ![p] = [IdleDC EXCEPT !.pc = "failed",
                                                      !.temp = r.Chunks,
                                                      !.err = r.err]]
             /\ Chunks' = r.Chunks
    /\ owed' = TRUE
    /\ UNCHANGED <<file, mu, mainPc, loadErr>>

\* DetectChanges: tempRT.LoadDataTable() fails, the error is returned
DcLoadFail(p) ==
    /\ UNCHANGED watchVars
    /\ dc[p].pc = "load"
    /\ \E io \in IoOutcomes(file) \ {IoOk} :
         LET r == LoadDataTable(TempTable, file, io)
         IN  dc' = [dc EXCEPT ![p] = [IdleDC EXCEPT !.pc = "failed",
                                                   !.temp = r.Chunks,
                                                   !.err = r.err]]
    /\ owed' = TRUE
    /\ UNCHANGED <<file, Chunks, mu, mainPc, loadErr>>

\* DetectChanges: tempRT.LoadDataTable() succeeds, the hashes are compared
DcLoadCompare(p) ==
    /\ UNCHANGED watchVars
    /\ dc[p].pc = "load"
    /\ LET r == LoadDataTable(TempTable, file, IoOk)
       IN  \E ordOld \in Orders(DOMAIN dc[p].oldChunks),
              ordNew \in Orders(DOMAIN r.Chunks) :
             dc' = [dc EXCEPT ![p].pc = "compared", ![p].src = file,
                              ![p].temp = r.Chunks,
                              ![p].changed = Compare(dc[p].oldChunks, r.Chunks,
                                                     ordOld, ordNew)]
    /\ UNCHANGED <<file, Chunks, mu, mainPc, loadErr, owed>>

\* DetectChanges: rt.mu.Lock(), rt.Chunks = tempRT.Chunks, rt.mu.Unlock(),
\* and the return of the changed destinations.  (quiet is history: no other
\* invocation has replaced rt.Chunks since this one copied it.  Of the locals
\* a returned or failed invocation keeps what it returns and what the claims
\* read.)
DcSwap(p) ==
    /\ UNCHANGED watchVars
    /\ dc[p].pc = "compared"
    /\ CanLock(mu)
    /\ Chunks' = Publish(Chunks, dc[p].temp)
    /\ dc' = [q \in Procs |->
                IF q = p
                THEN [dc[q] EXCEPT !.pc = "returned", !.temp = <<>>,
                                   !.quiet = TRUE]
                ELSE IF dc[q].pc \in {"load", "compared"}
                THEN [dc[q] EXCEPT !.quiet = FALSE]
                ELSE dc[q]]
    /\ UNCHANGED <<file, mu, mainPc, loadErr, owed>>

\* DetectChanges has returned; onChange reports and returns
DcReturn(p) ==
    /\ UNCHANGED watchVars
    /\ dc[p].pc \in {"failed", "returned"}
    /\ dc' = [dc EXCEPT ![p] = IdleDC]
    /\ UNCHANGED <<file, Chunks, mu, mainPc, loadErr, owed>>


---------------------------------------------------------------------------
(* The debounced notifier: FileWatcher                                     *)

\* the debounce interval main passes to NewFileWatcher, in ticks of 250 ms
Debounce == 2

MaxTime == 7        \* the clock stops here
MaxSignals == 3     \* relevant raw signals delivered in one run
MaxQueue == 1       \* raw signals waiting to be received
MaxErrors == 1      \* errors waiting to be received

WatchedPath == "file"
OtherPath == "other"

\* the raw signals fsnotify delivers: Name and Op (a set of fsnotify.Op bits)
EventPool ==
    {[Name |-> WatchedPath, Op |-> {"Write"}],
     [Name |-> WatchedPath, Op |-> {"Create"}],
     [Name |-> WatchedPath, Op |-> {"Write", "Chmod"}],
     [Name |-> WatchedPath, Op |-> {"Remove"}],
     [Name |-> OtherPath, Op |-> {"Write"}]}

\* a variant that looks at the path only
RelevantAnyOp(e) == e.Name = WatchedPath

\* watch: event.Name == fw.filePath and Op has the Write or the Create bit
Relevant(e) ==
    e.Name = WatchedPath /\ ("Write" \in e.Op \/ "Create" \in e.Op)

\* a variant that does not cancel the timer
StopNothing(ts, id) == ts

\* timer.Stop(): an armed timer is stopped, a fired or stopped one is left
Stop(ts, id) ==
    IF id # 0 /\ ts[id].state = "armed"
    THEN [ts EXCEPT ![id].state = "stopped"]
    ELSE ts

\* the time at which a timer created at time t expires
Deadline(t) == t + Debounce

Armed == {id \in DOMAIN timers : timers[id].state = "armed"}

InitWatcher ==
    /\ now = 0
    /\ events = <<>>
    /\ errors = 0
    /\ watchPc = "new"
    /\ timers = <<>>
    /\ timer = 0
    /\ closed = FALSE
    /\ closePc = "none"
    /\ cbWaiting = 0
    /\ cbRunning = 0
    /\ lastEvent = 0
    /\ cbTimes = <<>>
    /\ ignoredWhileArmed = FALSE
    /\ errorBeforeSignal = FALSE

\* Start: go fw.watch()
Start ==
    /\ UNCHANGED storeVars
    /\ UNCHANGED histVars
    /\ watchPc = "new"
    /\ watchPc' = "select"
    /\ UNCHANGED <<now, events, errors, timers, timer, closed, closePc,
                   cbWaiting, cbRunning, lastEvent, cbTimes>>

\* relevant raw signals delivered or about to be handled so far
Delivered ==
    Len(timers) + Len(SelectSeq(events, Relevant))
      + (IF watchPc = "handle" THEN 1 ELSE 0)

\* the notification primitive emits a raw signal
RawSignal ==
    /\ UNCHANGED storeVars
    /\ UNCHANGED histVars
    /\ watchPc # "new"
    /\ ~closed
    /\ Len(events) < MaxQueue
    /\ \E e \in EventPool :
         /\ Relevant(e) => Delivered < MaxSignals
         /\ events' = Append(events, e)
    /\ UNCHANGED <<now, errors, watchPc, timers, timer, closed, closePc,
                   cbWaiting, cbRunning, lastEvent, cbTimes>>

\* the notification primitive emits an error
RawError ==
    /\ UNCHANGED storeVars
    /\ UNCHANGED histVars
    /\ watchPc # "new"
    /\ ~closed
    /\ errors < MaxErrors
    /\ errors' = errors + 1
    /\ UNCHANGED <<now, events, watchPc, timers, timer, closed, closePc,
                   cbWaiting, cbRunning, lastEvent, cbTimes>>

\* watch: case event, ok := <-fw.watcher.Events, ok
WatchEvent ==
    /\ UNCHANGED storeVars
    /\ watchPc = "select"
    /\ ~closed
    /\ events # <<>>
    /\ ignoredWhileArmed' =
         (ignoredWhileArmed \/ (~Relevant(Head(events)) /\ Armed # {}))
    /\ UNCHANGED errorBeforeSignal
    /\ events' = Tail(events)
    /\ watchPc' = IF Relevant(Head(events)) THEN "handle" ELSE "select"
    /\ UNCHANGED <<now, errors, timers, timer, closed, closePc,
                   cbWaiting, cbRunning, lastEvent, cbTimes>>

\* a variant in which the loop returns after it has printed an error
WatchErrorReturn ==
    /\ UNCHANGED storeVars
    /\ errorBeforeSignal' = (errorBeforeSignal \/ timers = <<>>)
    /\ UNCHANGED ignoredWhileArmed
    /\ watchPc = "select"
    /\ ~closed
    /\ errors > 0
    /\ errors' = errors - 1
    /\ watchPc' = "exited"
    /\ UNCHANGED <<now, events, timers, timer, closed, closePc,
                   cbWaiting, cbRunning, lastEvent, cbTimes>>

\* watch: case err, ok := <-fw.watcher.Errors, ok: the error is printed
WatchError ==
    /\ UNCHANGED storeVars
    /\ errorBeforeSignal' = (errorBeforeSignal \/ timers = <<>>)
    /\ UNCHANGED ignoredWhileArmed
    /\ watchPc = "select"
    /\ ~closed
    /\ errors > 0
    /\ errors' = errors - 1
    /\ UNCHANGED <<now, events, watchPc, timers, timer, closed, closePc,
                   cbWaiting, cbRunning, lastEvent, cbTimes>>

\* watch: a receive from a closed channel, !ok: return
WatchExit ==
    /\ UNCHANGED storeVars
    /\ UNCHANGED histVars
    /\ watchPc = "select"
    /\ closed
    /\ watchPc' = "exited"
    /\ UNCHANGED <<now, events, errors, timers, timer, closed, closePc,
                   cbWaiting, cbRunning, lastEvent, cbTimes>>

\* a variant that sets a timer only when it holds none (fw.timer is never
\* reset, so only the first signal sets one)
handleChangeOnce ==
    /\ UNCHANGED storeVars
    /\ UNCHANGED histVars
    /\ watchPc = "handle"
    /\ IF timer = 0
       THEN /\ timers' = Append(timers, [at |-> now, state |-> "armed"])
            /\ timer' = Len(timers) + 1
       ELSE /\ timers' = Append(timers, [at |-> now, state |-> "stopped"])
            /\ timer' = timer
    /\ watchPc' = "select"
    /\ UNCHANGED <<now, events, errors, closed, closePc,
                   cbWaiting, cbRunning, lastEvent, cbTimes>>

\* a variant that sets a new timer without stopping the one it holds
handleChangeNoStop ==
    /\ UNCHANGED storeVars
    /\ UNCHANGED histVars
    /\ watchPc = "handle"
    /\ timers' = Append(timers, [at |-> now, state |-> "armed"])
    /\ timer' = Len(timers) + 1
    /\ watchPc' = "select"
    /\ UNCHANGED <<now, events, errors, closed, closePc,
                   cbWaiting, cbRunning, lastEvent, cbTimes>>

\* handleChange: under fw.mu, the timer held is stopped and a new one is set
handleChange ==
    /\ UNCHANGED storeVars
    /\ UNCHANGED histVars
    /\ watchPc = "handle"
    /\ timers' = Append(Stop(timers, timer), [at |-> now, state |-> "armed"])
    /\ timer' = Len(timers) + 1
    /\ watchPc' = "select"
    /\ UNCHANGED <<now, events, errors, closed, closePc,
                   cbWaiting, cbRunning, lastEvent, cbTimes>>

\* a timer expires: the runtime starts its function on a goroutine of its own
TimerFire ==
    /\ UNCHANGED storeVars
    /\ UNCHANGED histVars
    /\ \E id \in Armed :
         /\ now >= Deadline(timers[id].at)
         /\ timers' = [timers EXCEPT ![id].state = "fired"]
    /\ cbWaiting' = cbWaiting + 1
    /\ UNCHANGED <<now, events, errors, watchPc, timer, closed, closePc,
                   cbRunning, lastEvent, cbTimes>>

\* a variant in which the timer functions share one execution context: the
\* next one waits until the onChange in flight has returned
CallbackStartSerial ==
    /\ UNCHANGED storeVars
    /\ UNCHANGED histVars
    /\ cbWaiting > 0
    /\ cbRunning = 0
    /\ cbWaiting' = cbWaiting - 1
    /\ lastEvent' = now
    /\ cbRunning' = cbRunning + 1
    /\ cbTimes' = Append(cbTimes, now)
    /\ UNCHANGED <<now, events, errors, watchPc, timers, timer, closed, closePc>>

\* the timer function: fw.lastEvent is set under fw.mu, onChange is invoked
CallbackStart ==
    /\ UNCHANGED storeVars
    /\ UNCHANGED histVars
    /\ cbWaiting > 0
    /\ cbWaiting' = cbWaiting - 1
    /\ lastEvent' = now
    /\ cbRunning' = cbRunning + 1
    /\ cbTimes' = Append(cbTimes, now)
    /\ UNCHANGED <<now, events, errors, watchPc, timers, timer, closed, closePc>>

\* onChange returns
CallbackEnd ==
    /\ UNCHANGED storeVars
    /\ UNCHANGED histVars
    /\ cbRunning > 0
    /\ cbRunning' = cbRunning - 1
    /\ UNCHANGED <<now, events, errors, watchPc, timers, timer, closed, closePc,
                   cbWaiting, lastEvent, cbTimes>>

\* Close: under fw.mu, the timer held is stopped
CloseStop ==
    /\ UNCHANGED storeVars
    /\ UNCHANGED histVars
    /\ closePc \in {"none", "done"}
    /\ timers' = Stop(timers, timer)
    /\ closePc' = "stopped"
    /\ UNCHANGED <<now, events, errors, watchPc, timer, closed,
                   cbWaiting, cbRunning, lastEvent, cbTimes>>

\* Close: return fw.watcher.Close(); the channels are closed and what was
\* not received is dropped
CloseWatcher ==
    /\ UNCHANGED storeVars
    /\ UNCHANGED histVars
    /\ closePc = "stopped"
    /\ closed' = TRUE
    /\ events' = <<>>
    /\ errors' = 0
    /\ closePc' = "done"
    /\ UNCHANGED <<now, watchPc, timers, timer,
                   cbWaiting, cbRunning, lastEvent, cbTimes>>

\* Time passes.  The goroutines are taken to react at once: the clock does
\* not advance while the watch loop has something to receive or to handle,
\* while an expired timer has not fired, or while a fired timer function
\* has not yet invoked onChange.
Tick ==
    /\ UNCHANGED storeVars
    /\ UNCHANGED histVars
    /\ watchPc # "new"
    /\ now < MaxTime
    /\ watchPc # "handle"
    /\ watchPc = "select" => (closed \/ (events = <<>> /\ errors = 0))
    /\ \A id \in Armed : now < Deadline(timers[id].at)
    /\ cbWaiting = 0
    /\ now' = now + 1
    /\ UNCHANGED <<events, errors, watchPc, timers, timer, closed, closePc,
                   cbWaiting, cbRunning, lastEvent, cbTimes>>

---------------------------------------------------------------------------
(* Specifications                                                          *)

NextStore ==
    \/ MainLoadBegin
    \/ MainLoadEnd
    \/ Rewrite(StoreFiles)
    \/ \E p \in Procs :
         \/ DcRLock(p)
         \/ DcCopy(p)
         \/ DcLoadFail(p)
         \/ DcLoadCompare(p)
         \/ DcSwap(p)
         \/ DcReturn(p)

NextChunker == MainLoadBegin \/ MainLoadEnd

\* one reload cycle at a time, the file rewritten between the cycles
NextDiff ==
    \/ MainLoadBegin
    \/ MainLoadEnd
    \/ (\A p \in Procs : dc[p].pc = "idle") /\ Rewrite(DiffFiles)
    \/ \E p \in {1} :
         \/ DcRLock(p)
         \/ DcCopy(p)
         \/ DcLoadFail(p)
         \/ DcLoadCompare(p)
         \/ DcSwap(p)
         \/ DcReturn(p)

NextWatcher ==
    \/ Start
    \/ RawSignal
    \/ RawError
    \/ WatchEvent
    \/ WatchError
    \/ WatchExit
    \/ handleChange
    \/ TimerFire
    \/ CallbackStart
    \/ CallbackEnd
    \/ CloseStop
    \/ CloseWatcher
    \/ Tick

\* main and the reload cycles on the record store
Init == InitStore(StoreFiles) /\ InitWatcher
Spec == Init /\ [][NextStore]_vars

\* one load of a fresh table, for every content of the chunker's inputs
InitChunker == InitStore(ChunkerFiles) /\ InitWatcher
SpecChunker == InitChunker /\ [][NextChunker]_vars

\* main and reload cycles that do not overlap, for every content of the
\* comparison's inputs
InitDiff == InitStore(DiffFiles) /\ InitWatcher
SpecDiff == InitDiff /\ [][NextDiff]_vars

\* the notifier, with onChange left abstract
InitNotifier == InitStore({<<>>}) /\ InitWatcher
SpecWatcher == InitNotifier /\ [][NextWatcher]_vars

---------------------------------------------------------------------------
(* The chunker: claims about one load of a fresh table (SpecChunker)       *)

\* the snapshot one complete parse of content f gives
FreshParse(f) == LoadDataTable(<<>>, f, IoOk).Chunks

\* Stated from the input format: a record starts at a line that begins
\* with the marker.
IsMarkerLine(line) == line # <<>> /\ Head(line) = Marker
MarkerLines(f) == {i \in 1..Len(f) : IsMarkerLine(f[i])}

\* a marker line with fewer than two whitespace-delimited tokens
IsShortMarker(line) == IsMarkerLine(line) /\ Len(Fields(line)) < 2

\* the last line of the record that starts at marker line i: the line before
\* the next marker line, or the last line of the input
RecordEnd(f, i) ==
    LET later == {j \in MarkerLines(f) : j > i}
    IN  IF later = {} THEN Len(f)
        ELSE (CHOOSE j \in later : \A k \in later : j <= k) - 1

KeysDistinct(f) ==
    \A i, j \in MarkerLines(f) :
       i # j => DestinationOf(f[i], i) # DestinationOf(f[j], j)

\* C9: after a load, the synthetic key of a marker line with fewer than two
\* tokens differs from the second-token key of every other marker line of
\* the input, so that no record of the one replaces a record of the other.
C9_SyntheticKeysNeverCollide ==
    mainPc = "watching" =>
      \A i, j \in MarkerLines(file) :
         (IsShortMarker(file[i]) /\ ~IsShortMarker(file[j]))
           => /\ DestinationOf(file[i], i) # DestinationOf(file[j], j)
              /\ DestinationOf(file[i], i) \in DOMAIN Chunks
              /\ Chunks[DestinationOf(file[i], i)].StartLine = i
              /\ DestinationOf(file[j], j) \in DOMAIN Chunks

\* C10: after a load of an input whose keys are distinct, the records are
\* exactly those of the marker lines; the record of marker line i starts at
\* i, ends at the line before the next marker line (or at the last line) and
\* holds exactly these lines joined by single newlines.  Hence lines before
\* the first marker are in no record, an empty input gives no record and a
\* marker line followed at once by another gives a one-line record.
C10_RecordBoundaries ==
    (mainPc = "watching" /\ KeysDistinct(file)) =>
      /\ DOMAIN Chunks = {DestinationOf(file[i], i) : i \in MarkerLines(file)}
      /\ \A i \in MarkerLines(file) :
           LET c == Chunks[DestinationOf(file[i], i)]
               e == RecordEnd(file, i)
           IN  /\ c.StartLine = i
               /\ c.EndLine = e
               /\ c.Data = Join(SubSeq(file, i, e))
      /\ (file = <<>> => Chunks = <<>>)

\* C10 witness: a loaded input with a leading line, a one-line record and a
\* record of two lines
C10_Witness ==
    /\ mainPc = "watching"
    /\ KeysDistinct(file)
    /\ Len(file) = MaxLines
    /\ \E i, j \in MarkerLines(file) :
         /\ i > 1 /\ j = i + 1
         /\ Chunks[DestinationOf(file[i], i)].EndLine = i
    /\ C10_RecordBoundaries

\* the records of a snapshot written back out as text: their raw contents in
\* the order of their start lines, separated by newlines
RECURSIVE DataInStartOrder(_)
DataInStartOrder(chunks) ==
    IF DOMAIN chunks = {} THEN <<>>
    ELSE LET k == CHOOSE x \in DOMAIN chunks :
                     \A y \in DOMAIN chunks :
                        chunks[x].StartLine <= chunks[y].StartLine
         IN  <<chunks[k].Data>>
               \o DataInStartOrder([y \in (DOMAIN chunks) \ {k} |-> chunks[y]])

AsText(chunks) == Join(DataInStartOrder(chunks))

\* the snapshot that parsing the written-out text gives
Reparse(chunks) == FreshParse(ScanLines(AsText(chunks)))

\* the second parse gives the same keys, start lines, end lines and digests
SameRecords(a, b) ==
    /\ DOMAIN a = DOMAIN b
    /\ \A k \in DOMAIN a :
         /\ a[k].StartLine = b[k].StartLine
         /\ a[k].EndLine = b[k].EndLine
         /\ a[k].Hash = b[k].Hash

RoundTripInput(f) ==
    /\ f # <<>> => (IsMarkerLine(f[1]) /\ f[Len(f)] # <<>>)
    /\ KeysDistinct(f)

LinesOfKey(f, k) == {i \in MarkerLines(f) : DestinationOf(f[i], i) = k}
LastLineOfKey(f, k) ==
    CHOOSE i \in LinesOfKey(f, k) : \A j \in LinesOfKey(f, k) : j <= i

\* C17: after a load of an input in which several marker lines have the same
\* key, the snapshot holds one record for the key, and it is the record of
\* the last of these marker lines: its start line, end line, content and
\* digest.
C17_DuplicateKeysLastWins ==
    mainPc = "watching" =>
      /\ DOMAIN Chunks = {DestinationOf(file[i], i) : i \in MarkerLines(file)}
      /\ \A k \in DOMAIN Chunks :
           LET i == LastLineOfKey(file, k)
               e == RecordEnd(file, i)
           IN  /\ Chunks[k].Destination = k
               /\ Chunks[k].StartLine = i
               /\ Chunks[k].EndLine = e
               /\ Chunks[k].Data = Join(SubSeq(file, i, e))
               /\ Chunks[k].Hash = hashChunk(Join(SubSeq(file, i, e)))

\* C17 witness: a loaded input with two marker lines of one key and
\* different contents, the first of them the first line of the input
C17_Witness ==
    /\ mainPc = "watching"
    /\ \E k \in DOMAIN Chunks :
         /\ Cardinality(LinesOfKey(file, k)) = 2
         /\ 1 \in LinesOfKey(file, k)
         /\ Chunks[k].StartLine > 1
         /\ Chunks[k].Data # Join(SubSeq(file, 1, RecordEnd(file, 1)))
    /\ C17_DuplicateKeysLastWins

\* C14: the write lock of the live store is not held while the source is
\* read and parsed, in the initial load as in every reload: every step that
\* reads and parses the file starts with rt.mu not write-locked.
C14_LockOnlyForSwap ==
    [][((mainPc = "loading" /\ mainPc' # "loading")
          \/ \E p \in Procs : dc[p].pc = "load" /\ dc'[p].pc # "load")
         => ~mu.writer]_vars

---------------------------------------------------------------------------
(* The record store: claims about main's load and the reload cycles (Spec) *)

\* key k differs between two snapshots: in one only, or in both with
\* different digests
Differs(old, new, k) ==
    \/ (k \in DOMAIN old) # (k \in DOMAIN new)
    \/ (k \in DOMAIN old /\ k \in DOMAIN new /\ old[k].Hash # new[k].Hash)

Occurrences(seq, k) == Cardinality({i \in DOMAIN seq : seq[i] = k})

Compared(p) == dc[p].pc = "compared"

\* C3: the list a successful DetectChanges returns holds a key exactly once
\* if the key is in only one of the old and the new snapshot or is in both
\* with different digests, and holds no other key.
C3_DiffCoverage ==
    \A p \in Procs :
       Compared(p) =>
         LET old == dc[p].oldChunks
             new == dc[p].temp
             changed == dc[p].changed
         IN  /\ \A k \in (DOMAIN old) \cup (DOMAIN new) :
                  Occurrences(changed, k) = IF Differs(old, new, k) THEN 1 ELSE 0
             /\ \A i \in DOMAIN changed :
                  changed[i] \in (DOMAIN old) \cup (DOMAIN new)

\* C3 witness: a DetectChanges that is to return two keys, one removed and
\* one added, with a third key unchanged
C3_Witness ==
    \E p \in Procs :
       /\ dc[p].pc = "compared"
       /\ Len(dc[p].changed) = 2
       /\ \E k \in DOMAIN dc[p].oldChunks : k \notin DOMAIN dc[p].temp
       /\ \E k \in DOMAIN dc[p].temp : k \notin DOMAIN dc[p].oldChunks
       /\ \E k \in DOMAIN dc[p].temp : ~Differs(dc[p].oldChunks, dc[p].temp, k)

\* C4: a reload cycle that fails because the source cannot be opened or read
\* returns an error and leaves the live snapshot as it is: the snapshot the
\* cycle found when it started (no other cycle having replaced it since).
C4_ReloadFailureKeepsState ==
    [][\A p \in Procs :
         (dc[p].pc = "load" /\ dc'[p].pc = "failed") =>
           /\ dc'[p].err \in {"open_error", "read_error"}
           /\ Chunks' = Chunks
           /\ dc[p].quiet => Chunks' = dc[p].oldChunks]_vars

\* C4 witness: a reload that failed in mid-stream, after it had parsed a
\* record that the live snapshot does not hold
C4_Witness ==
    \E p \in Procs :
       /\ dc[p].pc = "failed"
       /\ dc[p].err = "read_error"
       /\ \E k \in DOMAIN dc[p].temp : k \notin DOMAIN Chunks
       /\ \E f \in StoreFiles : Chunks = FreshParse(f)

\* C5: whenever a reader holds the read lock of the store, the live snapshot
\* is the complete result of one parse of a content of the file: never a
\* snapshot under construction, never a mix of two parses.
C5_ReadersSeeCompleteSnapshot ==
    mu.readers # {} => \E f \in StoreFiles : Chunks = FreshParse(f)

\* C5 witness: a reader holds the read lock after a reload replaced the
\* snapshot while another reload is between its parse and its update
C5_Witness ==
    \E p, q \in Procs :
       /\ p \in mu.readers
       /\ dc[q].pc = "compared"
       /\ ~dc[q].quiet
       /\ Chunks # dc[q].oldChunks
       /\ Chunks # dc[q].temp

\* C7: a successful load or reload leaves as the live snapshot exactly the
\* records of the one parse it made, also when the reload reports no changed
\* key.
C7_LoadReplacesSnapshot ==
    [][/\ (mainPc = "loading" /\ mainPc' = "watching")
            => Chunks' = FreshParse(file)
       /\ \A p \in Procs :
            (dc[p].pc = "compared" /\ dc'[p].pc = "returned")
              => Chunks' = FreshParse(dc[p].src)]_vars

\* C7 witness: a reload has replaced the snapshot by a different one (the
\* records moved by one line) though it reported no changed key
C7_Witness ==
    \E p \in Procs :
       /\ dc[p].pc = "returned"
       /\ dc[p].changed = <<>>
       /\ Chunks = FreshParse(dc[p].src)
       /\ Chunks # dc[p].oldChunks

\* C8: when LoadDataTable fails with a read error, none of the records it
\* parsed during the call remain in the table it was called on.  (Every
\* table is fresh when LoadDataTable is called on it.)
C8_ReadFailureDiscardsPartial ==
    /\ \A p \in Procs :
         (dc[p].pc = "failed" /\ dc[p].err = "read_error") => dc[p].temp = <<>>
    /\ (mainPc = "exited" /\ loadErr = "read_error") => Chunks = <<>>

\* C18: when the initial load is done, every reload cycle that began has
\* finished, and since the last rewrite of the file a cycle has begun with no
\* reload failing afterwards (so a cycle that began after the last rewrite
\* has finished successfully), the live snapshot is the parse of the file's
\* content, whether or not the cycles overlapped.
C18_EventualConsistency ==
    (/\ mainPc = "watching"
     /\ \A p \in Procs : dc[p].pc \in {"idle", "returned"}
     /\ ~owed)
      => Chunks = FreshParse(file)

\* C19: the keys a successful DetectChanges returns are exactly the keys that
\* differ, in presence or in digest, between the live snapshot it replaces
\* at its swap and the snapshot it publishes, also when another
\* DetectChanges runs on the same store at the same time.
C19_ReportedDiffMatchesSwap ==
    [][\A p \in Procs :
         (dc[p].pc = "compared" /\ dc'[p].pc = "returned") =>
           {dc'[p].changed[i] : i \in DOMAIN dc'[p].changed}
             = {k \in (DOMAIN Chunks) \cup (DOMAIN Chunks') :
                  Differs(Chunks, Chunks', k)}]_vars

---------------------------------------------------------------------------
(* The notifier: claims about debounce and shutdown (SpecWatcher)          *)

\* timers[i].at is the time at which the i-th relevant signal arrived and was
\* handled (the watch loop handles a signal in the tick in which it arrives).
SignalCount == Len(timers)
SignalAt(i) == timers[i].at

\* every signal so far came strictly less than the interval after the one
\* before it
Burst == \A i \in 2..SignalCount : SignalAt(i) - SignalAt(i - 1) < Debounce

\* C1: N >= 1 relevant signals, each strictly less than the debounce interval
\* after the one before, give exactly one invocation of the callback, and it
\* starts no earlier than one interval after the last signal (Close not
\* having been called).
C1_DebounceBurst ==
    (closePc = "none" /\ SignalCount >= 1 /\ Burst) =>
      /\ Len(cbTimes) <= 1
      /\ \A j \in DOMAIN cbTimes : cbTimes[j] >= SignalAt(SignalCount) + Debounce
      /\ now > SignalAt(SignalCount) + Debounce => Len(cbTimes) = 1

\* C1 witness: a burst of MaxSignals signals at different times, and the one
\* invocation it gave
C1_Witness ==
    /\ closePc = "none"
    /\ SignalCount = MaxSignals
    /\ Burst
    /\ \A i \in 2..SignalCount : SignalAt(i) > SignalAt(i - 1)
    /\ Len(cbTimes) = 1
    /\ now > SignalAt(SignalCount) + Debounce

\* C2, as claimed: a relevant signal, a pause of at least the interval,
\* another relevant signal and then quiet give exactly 2 invocations.
C2_SeparationAtLeastInterval ==
    (/\ closePc = "none"
     /\ SignalCount = 2
     /\ SignalAt(2) - SignalAt(1) >= Debounce
     /\ now > SignalAt(2) + Debounce)
      => Len(cbTimes) = 2

\* C2, amended: a relevant signal, a pause strictly longer than the interval,
\* another relevant signal and then quiet give exactly 2 invocations, one no
\* earlier than an interval after each signal.
C2_SeparationLongerThanInterval ==
    (/\ closePc = "none"
     /\ SignalCount = 2
     /\ SignalAt(2) - SignalAt(1) > Debounce
     /\ now > SignalAt(2) + Debounce)
      => /\ Len(cbTimes) = 2
         /\ cbTimes[1] >= SignalAt(1) + Debounce
         /\ cbTimes[1] < SignalAt(2)
         /\ cbTimes[2] >= SignalAt(2) + Debounce

\* C2 witness: two signals more than an interval apart, and the two
\* invocations
C2_Witness ==
    /\ closePc = "none"
    /\ SignalCount = 2
    /\ SignalAt(2) - SignalAt(1) > Debounce
    /\ now > SignalAt(2) + Debounce
    /\ Len(cbTimes) = 2

\* C6: once Close has begun, the pending timer is cancelled, no timer is set
\* and no invocation of the callback starts.
C6_ShutdownStopsScheduling ==
    /\ [](closePc # "none" => Armed = {})
    /\ [][closePc # "none" =>
            (Len(timers') = Len(timers) /\ Len(cbTimes') = Len(cbTimes))]_vars

\* Stated from the claim: a raw signal is relevant when its path is the
\* watched path and its kind includes write or create.
IsRelevantSignal(e) ==
    e.Name = WatchedPath /\ (e.Op \cap {"Write", "Create"}) # {}

\* C12: when the watch loop receives a raw signal for another path, or of a
\* kind that includes neither write nor create, nothing in the notifier
\* changes but the signal's removal from the channel: no timer is set,
\* stopped or replaced, the loop does not go on to handleChange, and no
\* invocation of the callback is started.
C12_IrrelevantSignalsInert ==
    [][(/\ watchPc = "select"
        /\ ~closed /\ ~closed'
        /\ events # <<>>
        /\ events' = Tail(events)
        /\ ~IsRelevantSignal(Head(events)))
         => UNCHANGED <<now, errors, watchPc, timers, timer, closePc,
                        cbWaiting, cbRunning, lastEvent, cbTimes>>]_vars

\* C12 witness: a signal was ignored while the only timer ever set was
\* armed, and that timer fired an interval after it was set and gave the one
\* invocation
C12_Witness ==
    /\ ignoredWhileArmed
    /\ closePc = "none"
    /\ Len(timers) = 1
    /\ timers[1].state = "fired"
    /\ cbTimes = <<timers[1].at + Debounce>>

\* C13: as long as the notification primitive is not closed the watch loop
\* has not returned, whatever errors it received; receiving an error changes
\* nothing but the error's removal from the channel; and a relevant signal
\* is followed by an invocation of the callback no earlier than one interval
\* after it, once that interval has passed.
C13_ErrorsDoNotStopLoop ==
    /\ [](~closed => watchPc # "exited")
    /\ [][(watchPc = "select" /\ ~closed /\ ~closed' /\ errors' = errors - 1)
            => UNCHANGED <<now, events, watchPc, timers, timer, closePc,
                           cbWaiting, cbRunning, lastEvent, cbTimes>>]_vars
    /\ []((closePc = "none" /\ SignalCount >= 1
             /\ now > SignalAt(SignalCount) + Debounce)
            => \E j \in DOMAIN cbTimes :
                  cbTimes[j] >= SignalAt(SignalCount) + Debounce)

\* C13 witness: the loop received an error before any relevant signal, then
\* a relevant signal set the timer and the callback was invoked
C13_Witness ==
    /\ errorBeforeSignal
    /\ ~closed
    /\ closePc = "none"
    /\ watchPc = "select"
    /\ Len(timers) >= 1
    /\ \E j \in DOMAIN cbTimes : cbTimes[j] >= SignalAt(1) + Debounce

\* C15: while an invocation of the callback is in flight (it may never
\* return), the watch loop is not blocked (it can receive a waiting signal
\* and handle a relevant one), an expired timer can fire and its function can
\* invoke the callback; and a relevant signal is followed by an invocation
\* no earlier than one interval after it, once that interval has passed.
C15_StalledReloadDoesNotBlock ==
    cbRunning > 0 =>
      /\ (watchPc = "select" /\ ~closed /\ events # <<>>) => ENABLED WatchEvent
      /\ watchPc = "handle" => ENABLED handleChange
      /\ (\E id \in Armed : now >= Deadline(timers[id].at)) => ENABLED TimerFire
      /\ cbWaiting > 0 => ENABLED CallbackStart
      /\ (closePc = "none" /\ now > SignalAt(SignalCount) + Debounce)
           => \E j \in DOMAIN cbTimes :
                 cbTimes[j] >= SignalAt(SignalCount) + Debounce

\* C15 witness: two invocations are in flight, none has ever returned, and
\* the second came an interval after a signal received while the first was
\* in flight
C15_Witness ==
    /\ closePc = "none"
    /\ cbRunning = 2
    /\ Len(cbTimes) = 2
    /\ \E k \in DOMAIN timers :
         /\ timers[k].at > cbTimes[1]
         /\ timers[k].state = "fired"
         /\ cbTimes[2] = timers[k].at + Debounce

\* C16: once Close has returned, the watch loop can leave (it is not
\* blocked), no timer is armed, and a further Close changes nothing in the
\* notifier: its stop finds no timer to stop and its close of the watcher
\* leaves the channels as they are.
C16_ShutdownIdempotentLeakFree ==
    /\ []((closePc = "done" /\ watchPc = "select") => ENABLED WatchExit)
    /\ [](closePc = "done" => Armed = {})
    /\ [][(closePc = "done" /\ closePc' = "stopped") => timers' = timers]_vars
    /\ [][(closePc = "stopped" /\ closed /\ closePc' = "done")
            => UNCHANGED <<events, errors, timers, timer, closed, watchPc>>]_vars

\* C20: at most one debounce timer is armed (set and neither fired nor
\* stopped) in every state of the notifier, and it is the one fw.timer holds.
C20_SinglePendingTimer ==
    /\ Cardinality(Armed) <= 1
    /\ \A id \in Armed : id = timer

\* C20 witness: one timer is armed after an earlier one fired, a later one
\* was stopped by the next signal, and Close has begun
C20_Witness ==
    /\ Cardinality(Armed) = 1
    /\ \E i, j \in DOMAIN timers :
         /\ i < j
         /\ timers[i].state = "fired"
         /\ timers[j].state = "stopped"
    /\ closePc # "none"

=============================================================================
